---- MODULE Spec2Model ----
(***************************************************************************)
(* Thompson's construction (jortvanleenen/Thompsons-Construction).         *)
(*                                                                         *)
(* The model follows src/src/RegularExpression.cpp (the recursive-descent  *)
(* builder expr/term/fact, the matcher mat with its epsilon-closure, the   *)
(* renderer dot) and the command loop of src/src/main.cpp.                 *)
(*                                                                         *)
(* Texts are sequences of one-character strings.  State indices are        *)
(* 0-based as in the code; the state with index i is m_automaton[i + 1].   *)
(***************************************************************************)
EXTENDS Integers, Sequences, FiniteSets, TLC

\* ---------------------------------------------------------------- bounds

\* Longest expression text enumerated exhaustively.
MaxLen == 4
\* Longest string handed to mat.
MaxStr == 2
\* Longest expression text in the command loop (every pair of rebuilds).
ShellMaxLen == 2
\* Longest expression text whose epsilon-closures are computed step by step.
ClosureMaxLen == 3
\* Largest number of start states of one epsilon-closure computation.
MaxStart == 2

\* ------------------------------------------------------------ characters

Lower == {"a", "b"}
Upper == {"B"}
Letters == Lower \cup Upper
Chars == Letters \cup {"(", ")", "|", "*"}

\* The value of std::istream::peek()/get() at the end of the stream.
EOF == "EOF"
\* The character '\0' of a state that has only empty transitions.
NUL == "NUL"
\* The caller's sentinel for the empty string.
Sentinel == "$"
\* The label dotState writes for an edge of a state it takes for an epsilon state.
EpsilonLabel == "&epsilon;"

islower(c) == c \in Lower
isalpha(c) == c \in Letters

SeqsUpTo(S, n) == UNION {[1..k -> S] : k \in 0..n}

\* ------------------------------------------------------------ the State

NoEdge == -1

State(c, first, second) ==
  [character |-> c, first_outgoing |-> first, second_outgoing |-> second]

DefaultState == State(NUL, NoEdge, NoEdge)

\* ------------------------------------------------------- the input stream

peek(e, pos) == IF pos <= Len(e) THEN e[pos] ELSE EOF

\* The position after get(): a get() at the end of the stream reads nothing.
get(e, pos) == IF pos <= Len(e) THEN pos + 1 ELSE pos

\* ------------------------------------------------------------ the builder

\* automaton.back().first_outgoing = v.  On an empty vector back() is
\* undefined behaviour: the caller records it (ub) and the vector is left as
\* it is (the store went elsewhere) in the runs that go on.
SetBackFirst(automaton, v) ==
  IF automaton = <<>> THEN automaton
  ELSE [automaton EXCEPT ![Len(automaton)].first_outgoing = v]

SetBackSecond(automaton, v) ==
  IF automaton = <<>> THEN automaton
  ELSE [automaton EXCEPT ![Len(automaton)].second_outgoing = v]

\* What one invocation of expr, term or fact leaves behind: the returned
\* vector, the stream position, next_index and start_index (both passed by
\* reference), and for the analysis: ub (a back() on an empty vector
\* happened), log (one record per invocation) and fwd (one record per index
\* written before the state it names was appended: the index written and the
\* position at which that state ends up, counted from the place `base` at
\* which the returned vector is inserted by the callers).
Result(automaton, pos, next_index, start_index, ub, log, fwd) ==
  [automaton |-> automaton, pos |-> pos, next_index |-> next_index,
   start_index |-> start_index, ub |-> ub, log |-> log, fwd |-> fwd]

Invocation(rule, pos, n, base, r) ==
  [rule |-> rule, pos |-> pos, n |-> n, base |-> base,
   n_out |-> r.next_index, start |-> r.start_index, ret |-> r.automaton]

Logged(rule, pos, n, base, r) ==
  [r EXCEPT !.log = @ \cup {Invocation(rule, pos, n, base, r)}]

\* Fault variant: the letter rule advances next_index by one.
LetterAdvanceByOne(next_index) == next_index + 1

\* next_index += 2 after the two states of a letter were appended.
LetterAdvance(next_index) == next_index + 2

\* fact: the letter branch (lines 163-169).
lett(e, pos, next_index, base) ==
  Result(<<State(peek(e, pos), next_index + 1, NoEdge), DefaultState>>,
         get(e, pos), LetterAdvance(next_index), next_index, FALSE, {},
         {[written |-> next_index + 1, actual |-> base + 1]})

\* fact: the star branch (lines 171-181) applied to what was parsed so far.
star(r, base) ==
  LET looped == SetBackSecond(SetBackFirst(r.automaton, r.start_index),
                              r.next_index + 1)
  IN Result(looped \o <<State(NUL, r.start_index, r.next_index + 1),
                        DefaultState>>,
            r.pos + 1, r.next_index + 2, r.next_index,
            r.ub \/ r.automaton = <<>>, r.log,
            r.fwd \cup {[written |-> r.next_index + 1,
                         actual |-> base + Len(r.automaton) + 1]})

RECURSIVE expr(_, _, _, _, _)
RECURSIVE term(_, _, _, _, _)
RECURSIVE fact(_, _, _, _, _)

\* expression.get(); // Right-parenthesis (line 162).
Closed(e, sub) == [sub EXCEPT !.pos = get(e, sub.pos)]

\* if (expression.peek() == '*') ... (line 171).
Starred(e, inner, base) ==
  IF peek(e, inner.pos) = "*" THEN star(inner, base) ELSE inner

\* <fact> := <lett> [ * ] | ( <expr> ) [ * ]
fact(e, pos, next_index, start_index, base) ==
  Logged("fact", pos, next_index, base,
         IF peek(e, pos) = "("
         THEN Starred(e, Closed(e, expr(e, get(e, pos), next_index,
                                        start_index, base)), base)
         ELSE IF isalpha(peek(e, pos))
         THEN Starred(e, lett(e, pos, next_index, base), base)
         ELSE Result(<<>>, pos, next_index, start_index, FALSE, {}, {}))

\* The test under which term parses a further term (line 141).
TermContinues(c) == c = "(" \/ islower(c)

\* Fault variant: the further term is inserted before f instead of after it.
ConcatenationAtFront(f, c) ==
  Result(c.automaton \o SetBackFirst(f.automaton, c.start_index),
         c.pos, c.next_index, f.start_index,
         f.ub \/ c.ub \/ f.automaton = <<>>,
         f.log \cup c.log, f.fwd \cup c.fwd)

\* term: the concatenation of f with the further term c (lines 144-147);
\* front_index is f.start_index.
Concatenation(f, c) ==
  Result(SetBackFirst(f.automaton, c.start_index) \o c.automaton,
         c.pos, c.next_index, f.start_index,
         f.ub \/ c.ub \/ f.automaton = <<>>,
         f.log \cup c.log, f.fwd \cup c.fwd)

Concatenated(e, f, base) ==
  IF TermContinues(peek(e, f.pos))
  THEN Concatenation(f, term(e, f.pos, f.next_index, f.start_index,
                             base + Len(f.automaton)))
  ELSE f

\* <term> := <fact> [ <term> ]
term(e, pos, next_index, start_index, base) ==
  Logged("term", pos, next_index, base,
         Concatenated(e, fact(e, pos, next_index, start_index, base), base))

\* Fault variant: the join index is taken one too far.
JoinIndexOneOff(next_index) == next_index + 2

\* The index of the join state of an alternation, written into the two
\* trailing states before the join state is appended (lines 122-123).
JoinIndex(next_index) == next_index + 1

\* expr: the alternation of t with the further expr a (lines 120-129);
\* front_index is t.start_index, alternative_front_index is a.start_index.
Alternation(t, a, base) ==
  Result(SetBackFirst(t.automaton, JoinIndex(a.next_index))
           \o SetBackFirst(a.automaton, JoinIndex(a.next_index))
           \o <<State(NUL, t.start_index, a.start_index), DefaultState>>,
         a.pos, a.next_index + 2, a.next_index,
         t.ub \/ a.ub \/ t.automaton = <<>> \/ a.automaton = <<>>,
         t.log \cup a.log,
         t.fwd \cup a.fwd
           \cup {[written |-> JoinIndex(a.next_index),
                  actual |-> base + Len(t.automaton) + Len(a.automaton) + 1]})

Alternated(e, t, base) ==
  IF peek(e, t.pos) = "|"
  THEN Alternation(t, expr(e, get(e, t.pos), t.next_index, t.start_index,
                           base + Len(t.automaton)), base)
  ELSE t

\* <expr> := <term> [ | <expr> ]
expr(e, pos, next_index, start_index, base) ==
  Logged("expr", pos, next_index, base,
         Alternated(e, term(e, pos, next_index, start_index, base), base))

\* RegularExpression::RegularExpression(std::string_view expression)
RegularExpression(expression) == expr(expression, 1, 0, 0, 0)

\* ------------------------------------------------------------ the matcher

\* std::set iterates in ascending order.
Min(S) == CHOOSE x \in S : \A y \in S : x <= y

\* m_automaton[state]
At(automaton, state) == automaton[state + 1]

\* Fault variant: the recursive call is made whether or not the target was visited.
NeverVisited(new_states, target) == TRUE

\* new_states.count(target) == 0: the target was not visited yet.
NotVisited(new_states, target) == target \notin new_states

RECURSIVE traverseEmptyTransitionsRecursive(_, _, _)

\* The recursive call on one outgoing edge of state s (lines 93-97, 98-102).
Follow(automaton, target, new_states) ==
  IF target # NoEdge /\ NotVisited(new_states, target)
  THEN traverseEmptyTransitionsRecursive(automaton, {target}, new_states)
  ELSE new_states

\* The body of the for loop for one state (lines 91-103).
Visit(automaton, s, new_states) ==
  IF s.character = NUL
  THEN Follow(automaton, s.second_outgoing,
              Follow(automaton, s.first_outgoing, new_states))
  ELSE new_states

traverseEmptyTransitionsRecursive(automaton, current_states, new_states) ==
  IF current_states = {} THEN new_states
  ELSE traverseEmptyTransitionsRecursive(
         automaton, current_states \ {Min(current_states)},
         Visit(automaton, At(automaton, Min(current_states)),
               new_states \cup {Min(current_states)}))

traverseEmptyTransitions(automaton, current_states) ==
  traverseEmptyTransitionsRecursive(automaton, current_states, {})

\* Fault variant: the sentinel is not translated.
StringAsGiven(string) == string

\* "$" = empty string (line 61).
StringToMatch(string) == IF string = <<Sentinel>> THEN <<>> ELSE string

\* One round of the loop over the characters of the string (lines 69-77).
Consume(automaton, current_states, character) ==
  traverseEmptyTransitions(
    automaton,
    {At(automaton, state).first_outgoing :
       state \in {t \in current_states :
                    At(automaton, t).character = character}})

RECURSIVE Scan(_, _, _)
Scan(automaton, current_states, string) ==
  IF string = <<>> THEN current_states
  ELSE Scan(automaton, Consume(automaton, current_states, Head(string)),
            Tail(string))

mat(automaton, initial_state, string) ==
  LET string_to_match == StringToMatch(string)
  IN IF automaton = <<>> /\ string_to_match # <<>> THEN FALSE
     ELSE IF automaton = <<>> THEN TRUE
     ELSE (Len(automaton) - 1)
            \in Scan(automaton,
                     traverseEmptyTransitions(automaton, {initial_state}),
                     string_to_match)

\* ------------------------------------------------------------ the renderer

Line(kind, from, to, label) ==
  [kind |-> kind, from |-> from, to |-> to, label |-> label]

\* The label of an edge line (lines 55-56).
EdgeLabel(character) ==
  IF islower(character) THEN character ELSE EpsilonLabel

dotState(state_number, state, first_edge) ==
  Line("edge", state_number,
       (IF first_edge THEN state.first_outgoing ELSE state.second_outgoing) + 1,
       EdgeLabel(state.character))

RECURSIVE dotStates(_, _)
dotStates(automaton, state_number) ==
  IF state_number > Len(automaton) THEN <<>>
  ELSE LET state == automaton[state_number]
       IN (IF state.first_outgoing # NoEdge
           THEN <<dotState(state_number, state, TRUE)>> ELSE <<>>)
          \o (IF state.second_outgoing # NoEdge
              THEN <<dotState(state_number, state, FALSE)>> ELSE <<>>)
          \o dotStates(automaton, state_number + 1)

dot(automaton, initial_state) ==
  << Line("digraph {", 0, 0, ""),
     Line("rankdir = LR", 0, 0, ""),
     Line("node [shape = circle, style = filled, fillcolor = gray93]", 0, 0, ""),
     Line("[shape = doublecircle]",
          IF automaton = <<>> THEN 1 ELSE Len(automaton), 0, ""),
     Line("[style = invisible]", 0, 0, ""),
     Line("->", 0, initial_state + 1, "") >>
  \o dotStates(automaton, 1)
  \o << Line("}", 0, 0, "") >>

\* ------------------------------------- the grammar and what it denotes
\*
\* The grammar of the specification, read independently of the builder:
\*   expr := term ('|' expr)?    term := fact term?
\*   fact := lett '*'? | '(' expr ')' '*'?    lett := [A-Za-z]
\* Each Ref operator returns whether a phrase starts at the position, where
\* it ends, and its syntax tree.

RefFail == [ok |-> FALSE, pos |-> 0, ast |-> [op |-> "none"]]

RefOk(pos, ast) == [ok |-> TRUE, pos |-> pos, ast |-> ast]

RefStar(e, r) ==
  IF r.ok /\ peek(e, r.pos) = "*"
  THEN RefOk(r.pos + 1, [op |-> "star", l |-> r.ast])
  ELSE r

RefClose(e, r) ==
  IF r.ok /\ peek(e, r.pos) = ")" THEN RefOk(r.pos + 1, r.ast) ELSE RefFail

RefJoin(op, l, r) ==
  IF r.ok THEN RefOk(r.pos, [op |-> op, l |-> l.ast, r |-> r.ast])
  ELSE RefFail

RECURSIVE RefExpr(_, _)
RECURSIVE RefTerm(_, _)
RECURSIVE RefFact(_, _)

RefFact(e, i) ==
  IF peek(e, i) \in Letters
  THEN RefStar(e, RefOk(i + 1, [op |-> "sym", c |-> e[i]]))
  ELSE IF peek(e, i) = "("
  THEN RefStar(e, RefClose(e, RefExpr(e, i + 1)))
  ELSE RefFail

RefCat(e, f) ==
  IF f.ok /\ peek(e, f.pos) \in Letters \cup {"("}
  THEN RefJoin("cat", f, RefTerm(e, f.pos))
  ELSE f

RefTerm(e, i) == RefCat(e, RefFact(e, i))

RefAlt(e, t) ==
  IF t.ok /\ peek(e, t.pos) = "|"
  THEN RefJoin("alt", t, RefExpr(e, t.pos + 1))
  ELSE t

RefExpr(e, i) == RefAlt(e, RefTerm(e, i))

RefWhole(e, r) == r.ok /\ r.pos = Len(e) + 1

\* e is derivable from the grammar.
InGrammar(e) == RefWhole(e, RefExpr(e, 1))

\* e is derivable when fact may also derive nothing at the end of the input:
\* besides the expressions of the grammar, the empty text and an expression
\* followed by a last, empty alternative.
InGrammarEps(e) ==
  \/ InGrammar(e)
  \/ e = <<>>
  \/ /\ e[Len(e)] = "|"
     /\ InGrammar(SubSeq(e, 1, Len(e) - 1))

\* The string s belongs to the language of the syntax tree x.
RECURSIVE Denotes(_, _)
Denotes(x, s) ==
  CASE x.op = "sym" -> s = <<x.c>>
    [] x.op = "alt" -> Denotes(x.l, s) \/ Denotes(x.r, s)
    [] x.op = "cat" ->
         \E k \in 0..Len(s) : /\ Denotes(x.l, SubSeq(s, 1, k))
                              /\ Denotes(x.r, SubSeq(s, k + 1, Len(s)))
    [] x.op = "star" ->
         \/ s = <<>>
         \/ \E k \in 1..Len(s) : /\ Denotes(x.l, SubSeq(s, 1, k))
                                 /\ Denotes(x, SubSeq(s, k + 1, Len(s)))

\* The string s belongs to the language of the expression e of the grammar.
InLanguage(e, s) == Denotes(RefExpr(e, 1).ast, s)

OverLetters(s) == \A i \in 1..Len(s) : s[i] \in Letters

OverLower(s) == \A i \in 1..Len(s) : s[i] \in Lower \cup {"(", ")", "|", "*"}

\* ------------------------------------------------------------ the program

VARIABLES
  m_automaton,      \* the states of the current RegularExpression
  m_initial_state,  \* its initial state
  status,           \* "running", "ended" (end) or "crashed"
  out,              \* what the last command produced
  text,             \* the argument of the last exp ("" before the first)
  built,            \* an exp was executed
  replaced,         \* the last exp replaced an automaton that had states
  parse,            \* what the last construction left behind
  closure           \* one computation of traverseEmptyTransitions, step by step

vars == <<m_automaton, m_initial_state, status, out, text, built, replaced,
          parse, closure>>

NoOutput == [op |-> "none", arg |-> <<>>, match |-> FALSE, lines |-> <<>>]

Parse(r) == [next_index |-> r.next_index, ub |-> r.ub, log |-> r.log,
             fwd |-> r.fwd]

Examples ==
  { <<"(", "a", "|", "b", ")", "*", "a">>,
    <<"(", "a", "*", ")", "*">>,
    <<"(", "a", "|", "b", "*", ")", "*">> }

Texts == SeqsUpTo(Chars, MaxLen) \cup Examples
ShellChars == {"a", "B", "|", "*"}
ShellTexts == SeqsUpTo(ShellChars, ShellMaxLen) \cup Examples
ClosureTexts ==
  {e \in SeqsUpTo(Chars, ClosureMaxLen) \cup Examples : InGrammar(e)}
MatStrings == SeqsUpTo(Letters, MaxStr) \cup {<<Sentinel>>}

Idle == [phase |-> "idle", start |-> {}, stack |-> <<>>, new_states |-> {},
         calls |-> 0]

\* RegularExpression expression{};  (main.cpp line 84)
Init ==
  /\ m_automaton = <<>>
  /\ m_initial_state = 0
  /\ status = "running"
  /\ out = NoOutput
  /\ text = <<>>
  /\ built = FALSE
  /\ replaced = FALSE
  /\ parse = [next_index |-> 0, ub |-> FALSE, log |-> {}, fwd |-> {}]
  /\ closure = Idle

\* Fault variant: the new states are added to the old ones.
AssignedAppend(old, new) == old \o new

\* The object that replaces the expression (main.cpp line 40).
Assigned(old, new) == new

\* exp <expression>.  A construction with undefined behaviour either ends the
\* program or goes on with what was built.
Constructed(r) ==
  /\ m_automaton' = Assigned(m_automaton, r.automaton)
  /\ m_initial_state' = r.start_index
  /\ parse' = Parse(r)
  /\ status' \in (IF r.ub THEN {"running", "crashed"} ELSE {"running"})

execute_exp(token) ==
  /\ status = "running"
  /\ Constructed(RegularExpression(token))
  /\ text' = token
  /\ built' = TRUE
  /\ replaced' = (m_automaton # <<>>)
  /\ out' = NoOutput
  /\ UNCHANGED closure

\* Some m_automaton[...] of mat or of the epsilon-closure may index the vector
\* out of its range (lines 72-73, 92-101): an edge or the initial state is
\* no index of the automaton.
Dangling(automaton, initial_state) ==
  \/ \E i \in 1..Len(automaton) :
       \/ automaton[i].first_outgoing \notin {NoEdge} \cup (0..Len(automaton) - 1)
       \/ automaton[i].second_outgoing \notin {NoEdge} \cup (0..Len(automaton) - 1)
  \/ automaton # <<>> /\ initial_state \notin 0..Len(automaton) - 1

MatOutput(token, match) ==
  [op |-> "mat", arg |-> token, match |-> match, lines |-> <<>>]

\* mat <string>.  Indexing the vector out of its range is undefined
\* behaviour: any answer, or the end of the program.
execute_mat(token) ==
  /\ status = "running"
  /\ IF Dangling(m_automaton, m_initial_state)
     THEN /\ \E match \in BOOLEAN : out' = MatOutput(token, match)
          /\ status' \in {"running", "crashed"}
     ELSE /\ out' = MatOutput(token, mat(m_automaton, m_initial_state, token))
          /\ status' = status
  /\ UNCHANGED <<m_automaton, m_initial_state, text, built, replaced, parse,
                 closure>>

\* dot <filename>
execute_dot ==
  /\ status = "running"
  /\ out' = [op |-> "dot", arg |-> <<>>, match |-> FALSE,
             lines |-> dot(m_automaton, m_initial_state)]
  /\ UNCHANGED <<m_automaton, m_initial_state, status, text, built, replaced,
               parse, closure>>

\* end
execute_end ==
  /\ status = "running"
  /\ status' = "ended"
  /\ UNCHANGED <<m_automaton, m_initial_state, out, text, built, replaced,
               parse, closure>>

\* The command loop: any command, any number of times.
Next ==
  \/ \E token \in ShellTexts : execute_exp(token)
  \/ \E token \in MatStrings : execute_mat(token)
  \/ execute_dot
  \/ execute_end

Spec == Init /\ [][Next]_vars

\* One construction from the default-constructed object, then one command.
NextBuild ==
  \/ /\ ~built
     /\ out = NoOutput
     /\ \E token \in Texts : execute_exp(token)
  \/ /\ out = NoOutput
     /\ \E token \in MatStrings : execute_mat(token)
  \/ /\ out = NoOutput
     /\ execute_dot

SpecBuild == Init /\ [][NextBuild]_vars

\* ------------------------------------- the epsilon-closure, step by step

\* One activation of traverseEmptyTransitionsRecursive: the states of
\* current_states the for loop has still to visit, the state it is at, and
\* where it is in the loop body.
Frame(current_states) ==
  [current_states |-> current_states, state |-> NoEdge, pc |-> "for"]

Top == closure.stack[Len(closure.stack)]

SetTop(frame) == [closure.stack EXCEPT ![Len(closure.stack)] = frame]

Others ==
  <<m_automaton, m_initial_state, status, out, text, built, replaced, parse>>

\* traverseEmptyTransitions(current_states): the first activation, with an
\* empty new_states (lines 82-86).
traverse_begin(current_states) ==
  /\ status = "running"
  /\ built
  /\ m_automaton # <<>>
  /\ closure.phase = "idle"
  /\ closure' = [phase |-> "running", start |-> current_states,
                 stack |-> <<Frame(current_states)>>, new_states |-> {},
                 calls |-> 0]
  /\ UNCHANGED Others

\* for (auto state: current_states) { new_states.insert(state); ...
Visiting(state) ==
  [closure EXCEPT
     !.new_states = @ \cup {state},
     !.stack = SetTop([current_states |-> Top.current_states \ {state},
                       state |-> state,
                       pc |-> IF At(m_automaton, state).character = NUL
                              THEN "first" ELSE "for"])]

traverse_for ==
  /\ closure.phase = "running"
  /\ Top.pc = "for"
  /\ Top.current_states # {}
  /\ closure' = Visiting(Min(Top.current_states))
  /\ UNCHANGED Others

\* The recursive call on one outgoing edge (lines 93-97 and 98-102).
Call(target, return_pc) ==
  IF target # NoEdge /\ NotVisited(closure.new_states, target)
  THEN [closure EXCEPT
          !.stack = Append(SetTop([Top EXCEPT !.pc = return_pc]),
                           Frame({target})),
          !.calls = @ + 1]
  ELSE [closure EXCEPT !.stack = SetTop([Top EXCEPT !.pc = return_pc])]

traverse_first ==
  /\ closure.phase = "running"
  /\ Top.pc = "first"
  /\ closure' = Call(At(m_automaton, Top.state).first_outgoing, "second")
  /\ UNCHANGED Others

traverse_second ==
  /\ closure.phase = "running"
  /\ Top.pc = "second"
  /\ closure' = Call(At(m_automaton, Top.state).second_outgoing, "for")
  /\ UNCHANGED Others

\* return new_states; the caller merges the returned copy into new_states,
\* which holds all of it already.
traverse_return ==
  /\ closure.phase = "running"
  /\ Top.pc = "for"
  /\ Top.current_states = {}
  /\ closure' =
       [closure EXCEPT
          !.stack = SubSeq(@, 1, Len(@) - 1),
          !.phase = IF Len(closure.stack) = 1 THEN "done" ELSE "running"]
  /\ UNCHANGED Others

traverse_step ==
  \/ traverse_for
  \/ traverse_first
  \/ traverse_second
  \/ traverse_return

StartSets ==
  {S \in SUBSET (0..Len(m_automaton) - 1) : Cardinality(S) <= MaxStart}

\* One construction, then one epsilon-closure from any set of start states.
NextClosure ==
  \/ /\ ~built
     /\ \E token \in ClosureTexts : execute_exp(token)
  \/ \E current_states \in StartSets : traverse_begin(current_states)
  \/ traverse_step

SpecClosure == Init /\ [][NextClosure]_vars

\* The program is sequential: a computation that can take a step takes it.
SpecClosureFair == SpecClosure /\ WF_vars(traverse_step)

\* The step-by-step computation and the operator used by mat agree.
ClosureAgrees ==
  closure.phase = "done"
    => closure.new_states = traverseEmptyTransitions(m_automaton, closure.start)

\* --------------------------------------------------------------- claims

\* C1: for every expression e of the grammar (upper-case and lower-case
\* letters in any position) and every string s over letters, mat(s) on the
\* automaton built from e is true if and only if s is in the language of e.
C1_MatDecidesLanguage ==
  (/\ built
   /\ status = "running"
   /\ InGrammar(text)
   /\ out.op = "mat"
   /\ OverLetters(out.arg))
    => (out.match <=> InLanguage(text, out.arg))

\* C1 for the expressions whose letters are all lower-case.
C1_LowerCase ==
  (/\ built
   /\ status = "running"
   /\ InGrammar(text)
   /\ OverLower(text)
   /\ out.op = "mat"
   /\ OverLetters(out.arg))
    => (out.match <=> InLanguage(text, out.arg))

Last(automaton) == automaton[Len(automaton)]

\* C2: for every expression of the grammar, the sequence returned by the
\* builder and by every nested invocation of expr, term and fact ends with
\* the accepting state: an epsilon state with no first and no second edge.
C2_LastIsAccepting ==
  (built /\ InGrammar(text))
    => /\ m_automaton # <<>>
       /\ Last(m_automaton) = DefaultState
       /\ \A inv \in parse.log :
            inv.ret # <<>> /\ Last(inv.ret) = DefaultState

C2_Witness ==
  /\ built
  /\ InGrammar(text)
  /\ \E inv \in parse.log : inv.rule = "fact" /\ Len(inv.ret) = 8
  /\ out.op = "mat"
  /\ out.match

Indices(automaton) == 0..Len(automaton) - 1

\* Every reference of the automaton is an index of it.
ValidRefs ==
  /\ \A i \in 1..Len(m_automaton) :
       /\ m_automaton[i].first_outgoing \in {NoEdge} \cup Indices(m_automaton)
       /\ m_automaton[i].second_outgoing \in {NoEdge} \cup Indices(m_automaton)
  /\ m_automaton # <<>> => m_initial_state \in Indices(m_automaton)

\* C3: for every expression of the grammar, every present edge of every
\* state of the finished automaton, and the initial state, is an index i
\* with 0 <= i < number of states.
C3_NoDanglingReference ==
  (built /\ InGrammar(text))
    => /\ \A i \in 1..Len(m_automaton) :
            /\ m_automaton[i].first_outgoing
                 \in {NoEdge} \cup Indices(m_automaton)
            /\ m_automaton[i].second_outgoing
                 \in {NoEdge} \cup Indices(m_automaton)
       /\ m_initial_state \in Indices(m_automaton)

C3_Witness ==
  /\ built
  /\ InGrammar(text)
  /\ m_initial_state = Len(m_automaton) - 2
  /\ \E i \in 1..Len(m_automaton) :
       /\ m_automaton[i].first_outgoing \in 0..(i - 1)
       /\ m_automaton[i].second_outgoing = Len(m_automaton) - 1

\* C4: build is total over the grammar, the empty production of fact at the
\* end of the input included: no construction step reads or updates the
\* trailing state of an empty sub-automaton.
C4_BuildTotal ==
  (built /\ InGrammarEps(text)) => ~parse.ub

\* C5: whenever the builder returns, the returned sequence is empty only if
\* the expression text is the empty string.
C5_EmptyOnlyForEmptyText ==
  (built /\ ~parse.ub /\ m_automaton = <<>>) => text = <<>>

\* C6: the empty automaton (default-constructed, or built from the empty
\* expression) accepts exactly the empty string: mat is true for the empty
\* string, also when given as "$", and false for every other string.
C6_EmptyAutomaton ==
  (m_automaton = <<>> /\ out.op = "mat")
    => (out.match <=> out.arg \in {<<>>, <<Sentinel>>})

C6_Witness ==
  /\ ~built
  /\ m_automaton = <<>>
  /\ out.op = "mat"
  /\ out.arg = <<Sentinel>>
  /\ out.match

IsEdge(line) == line.kind = "edge"

\* The edge lines C7 describes: one per present edge, from p + 1 to the
\* target + 1, labelled with the symbol of a labelled state and with the
\* epsilon marker exactly for an epsilon state.
EdgeOf(i, target) ==
  Line("edge", i, target + 1,
       IF m_automaton[i].character = NUL THEN EpsilonLabel
       ELSE m_automaton[i].character)

DescribedEdges ==
  {EdgeOf(i, m_automaton[i].first_outgoing) :
     i \in {j \in 1..Len(m_automaton) : m_automaton[j].first_outgoing # NoEdge}}
  \cup
  {EdgeOf(i, m_automaton[i].second_outgoing) :
     i \in {j \in 1..Len(m_automaton) : m_automaton[j].second_outgoing # NoEdge}}

Occurrences(lines, line) == Cardinality({j \in 1..Len(lines) : lines[j] = line})

EdgeLinesAreDescribed(edges) ==
  /\ Len(edges) = Cardinality(DescribedEdges)
  /\ \A line \in DescribedEdges : Occurrences(edges, line) = 1

\* C7: for every automaton built from an expression of the grammar (letters
\* [A-Za-z]), dot emits for each present edge exactly one edge line from
\* p + 1 to target + 1, labelled with the state's own symbol for a labelled
\* state and with the epsilon marker exactly for an epsilon state.
C7_EdgeLines ==
  (built /\ InGrammar(text) /\ out.op = "dot")
    => EdgeLinesAreDescribed(SelectSeq(out.lines, IsEdge))

\* C7 for the expressions whose letters are all lower-case.
C7_LowerCase ==
  (built /\ InGrammar(text) /\ OverLower(text) /\ out.op = "dot")
    => EdgeLinesAreDescribed(SelectSeq(out.lines, IsEdge))

IsBuiltFrom(r) ==
  /\ m_automaton = r.automaton
  /\ m_initial_state = r.start_index
  /\ out.op = "mat" => out.match = mat(r.automaton, r.start_index, out.arg)
  /\ out.op = "dot" => out.lines = dot(r.automaton, r.start_index)

\* C8: after any sequence of exp, mat and dot, the current automaton is the
\* one built from the text of the most recent exp alone (the empty one when
\* there was none), and what mat and dot answer is what they answer on that
\* automaton: mat and dot change nothing, a rebuild keeps nothing.
C8_LastRebuildAlone ==
  status # "crashed" => IsBuiltFrom(RegularExpression(text))

C8_Witness ==
  /\ replaced
  /\ text = <<"a", "*">>
  /\ out.op = "mat"
  /\ out.arg = <<"a", "a">>
  /\ out.match

\* The k-th state of the returned sequence is the state at position n + k of
\* the finished automaton: same symbol, and the edges it had on return.
Placed(inv) ==
  \A k \in 1..Len(inv.ret) :
    /\ inv.n + k <= Len(m_automaton)
    /\ m_automaton[inv.n + k].character = inv.ret[k].character
    /\ inv.ret[k].first_outgoing # NoEdge
         => m_automaton[inv.n + k].first_outgoing = inv.ret[k].first_outgoing
    /\ inv.ret[k].second_outgoing # NoEdge
         => m_automaton[inv.n + k].second_outgoing = inv.ret[k].second_outgoing

\* C9: each invocation of expr, term or fact entered with next_index = n
\* returns exactly next_index' - n states, which end at the positions
\* n, n + 1, ... of the finished automaton, and a start_index in
\* [n, next_index'); every index written before its target was appended is
\* the position of that target; at the end next_index is the number of states.
C9_IndexStability ==
  (built /\ InGrammar(text))
    => /\ \A inv \in parse.log :
            /\ Len(inv.ret) = inv.n_out - inv.n
            /\ inv.base = inv.n
            /\ inv.start \in inv.n..(inv.n_out - 1)
            /\ Placed(inv)
       /\ \A f \in parse.fwd : f.written = f.actual
       /\ parse.next_index = Len(m_automaton)

C9_Witness ==
  /\ built
  /\ text = <<"(", "a", "|", "b", ")", "*", "a">>
  /\ parse.next_index = 10
  /\ Cardinality(parse.fwd) = 5

\* C10: the epsilon-closure terminates on every automaton built from an
\* expression of the grammar, cycles included, from every set of start
\* states; a recursive call is made only for a state not yet visited, so one
\* computation makes at most as many recursive calls as there are states.
C10_ClosureTerminates ==
  /\ [](InGrammar(text) => closure.calls <= Len(m_automaton))
  /\ [][closure'.calls = closure.calls + 1
          => Last(closure'.stack).current_states \cap closure.new_states = {}]_vars
  /\ (closure.phase = "running") ~> (closure.phase = "done")

C10_Witness ==
  /\ text = <<"(", "a", "*", ")", "*">>
  /\ closure.start = {4}
  /\ closure.phase = "done"
  /\ closure.calls = 4
  /\ closure.new_states = {0, 2, 3, 4, 5}

====
